---- MODULE Spec2Model ----
(***************************************************************************)
(* gh-gitgen: the agent conversation of src/src/gh_gitgen/_gitgen.py.      *)
(*                                                                         *)
(* A text is a sequence of atoms.  What a human types is a sequence of     *)
(* single characters; the literal pieces of the format strings are single  *)
(* atoms.  String concatenation is \o.                                     *)
(***************************************************************************)
EXTENDS Integers, Sequences, FiniteSets, TLC

\* ---- bounds of the model ------------------------------------------------
MaxEvents == 2        \* items one turn's output stream yields at most
MaxRevisions == 1     \* revision turns the human asks for at most
MaxToolCalls == 1     \* invocations of the tool by the backend at most
MaxComments == 2      \* comments the API returns at most

\* ---- str methods ----------------------------------------------------------
Whitespace == {" ", "\t", "\n"}

RECURSIVE lstrip(_)
lstrip(s) == IF s # <<>> /\ Head(s) \in Whitespace THEN lstrip(Tail(s)) ELSE s

RECURSIVE rstrip(_)
rstrip(s) ==
    IF s # <<>> /\ s[Len(s)] \in Whitespace
    THEN rstrip(SubSeq(s, 1, Len(s) - 1))
    ELSE s

strip(s) == rstrip(lstrip(s))

lowerChar(c) ==
    CASE c = "Y" -> "y"
      [] c = "E" -> "e"
      [] c = "X" -> "x"
      [] c = "I" -> "i"
      [] c = "T" -> "t"
      [] c = "O" -> "o"
      [] c = "K" -> "k"
      [] OTHER -> c

lower(s) == [i \in 1..Len(s) |-> lowerChar(s[i])]

Digit(d) ==
    CASE d = 0 -> "0" [] d = 1 -> "1" [] d = 2 -> "2" [] d = 3 -> "3"
      [] d = 4 -> "4" [] d = 5 -> "5" [] d = 6 -> "6" [] d = 7 -> "7"
      [] d = 8 -> "8" [] d = 9 -> "9"

\* str(n) of a non-negative int, as an f-string formats it
RECURSIVE str(_)
str(n) == IF n < 10 THEN <<Digit(n)>> ELSE str(n \div 10) \o <<Digit(n % 10)>>

\* variant: the parts are joined last to first
RECURSIVE joinReversed(_, _)
joinReversed(sep, parts) ==
    IF parts = <<>> THEN <<>>
    ELSE IF Len(parts) = 1 THEN parts[1]
    ELSE joinReversed(sep, Tail(parts)) \o sep \o parts[1]

\* sep.join(parts)
RECURSIVE join(_, _)
join(sep, parts) ==
    IF parts = <<>> THEN <<>>
    ELSE IF Len(parts) = 1 THEN parts[1]
    ELSE parts[1] \o sep \o join(sep, Tail(parts))

\* text.split(sep), sep one character
RECURSIVE split(_, _)
split(text, sep) ==
    IF \A i \in 1..Len(text) : text[i] # sep THEN <<text>>
    ELSE LET at == CHOOSE i \in 1..Len(text) :
                       text[i] = sep /\ \A j \in 1..(i - 1) : text[j] # sep
         IN  <<SubSeq(text, 1, at - 1)>> \o split(SubSeq(text, at + 1, Len(text)), sep)

\* d.get(k, default) of a JSON object
get(d, k, default) == IF k \in DOMAIN d THEN d[k] ELSE default

\* ---- get_github_issue_content ---------------------------------------------
\* HTTP statuses the two endpoints answer with
Statuses == {200, 404, 500}

EmptyObject == [k \in {} |-> <<>>]

\* JSON bodies the issue endpoint answers with
IssueJsons ==
    { [body |-> <<"B">>, user |-> [login |-> <<"alice">>]],
      [body |-> <<"B">>],
      EmptyObject }

\* JSON objects of the comments endpoint's list
CommentJsons ==
    { [user |-> [login |-> <<"bob">>, id |-> 7], body |-> <<"C1">>],
      [user |-> [login |-> <<"carol">>, id |-> 12], body |-> <<"C2">>],
      EmptyObject }

\* the answers drawn while the whole conversation is explored
TurnStatuses == {200, 404}

TurnIssueJsons == {[body |-> <<"B">>, user |-> [login |-> <<"alice">>]]}

TurnCommentLists ==
    {<<[user |-> [login |-> <<"bob">>, id |-> 7], body |-> <<"C1">>]>>}

RECURSIVE SeqsUpTo(_, _)
SeqsUpTo(S, n) ==
    IF n = 0 THEN {<<>>}
    ELSE LET shorter == SeqsUpTo(S, n - 1)
         IN  shorter \cup {Append(s, e) : s \in shorter, e \in S}

CommentLists == SeqsUpTo(CommentJsons, MaxComments)

\* variant: the status is not interpolated
IssueErrorWithoutStatus(status) == <<"Error fetching issue">>

IssueError(status) == <<"Error fetching issue: ">> \o str(status)

CommentsError(status) == <<"Error fetching comments: ">> \o str(status)

issue_content_of(json) == get(json, "body", <<"No content">>)

issue_user_of(json) == get(get(json, "user", EmptyObject), "login", <<"Unknown user">>)

comment_id_of(comment) ==
    LET user == get(comment, "user", EmptyObject)
    IN  IF "id" \in DOMAIN user THEN str(user["id"]) ELSE <<"Unknown ID">>

comment_line(comment) ==
    get(get(comment, "user", EmptyObject), "login", <<"Unknown user">>)
    \o <<" (ID: ">> \o comment_id_of(comment) \o <<"): ">>
    \o get(comment, "body", <<"No content">>)

comments_content_of(list) ==
    join(<<"\n\n">>, [i \in 1..Len(list) |-> comment_line(list[i])])

issue_result(user, content, cmts) ==
    <<"Issue Content by ">> \o user \o <<":\n">> \o content
    \o <<"\n\nComments:\n">> \o cmts

\* async with ... as r: r is held inside the block
EnterAsyncWith(resources, r) == resources \cup {r}

\* variant: a return inside the block leaves it without releasing
ExitAsyncWithLeaksOnReturn(resources, r, returns) ==
    IF returns THEN resources ELSE resources \ {r}

\* the block is left, at its end or by a return inside it: r is released
ExitAsyncWith(resources, r, returns) == resources \ {r}

\* gen.py's tool returns the bodies without their authors (gen.py line 31)
gen_issue_result(content, cmts) ==
    <<"Issue Content:\n">> \o content \o <<"\n\nComments:\n">> \o cmts

gen_comments_content_of(list) ==
    join(<<"\n\n">>, [i \in 1..Len(list) |-> get(list[i], "body", <<"No content">>)])

\* ---- run ------------------------------------------------------------------
\* What the output stream of on_messages_stream yields: a Response carrying
\* a chat message, or an inner event of the agent (not a Response).
TextFragments == {<<"Hello ">>}

Response(kind, content) == [response |-> TRUE, kind |-> kind, content |-> content]

InnerEvent == [response |-> FALSE, kind |-> "ToolCallRequestEvent", content |-> <<>>]

\* variant: the else branch drops the message instead of raising
DispatchDropsUnexpected(message) ==
    IF message.response
    THEN IF message.kind \in {"TextMessage", "ToolCallSummaryMessage"}
         THEN "append"
         ELSE "skip"
    ELSE "skip"

\* variant: the else branch appends the content instead of raising
DispatchAppendsAny(message) == IF message.response THEN "append" ELSE "skip"

\* variant: the elif branch for ToolCallSummaryMessage is missing
DispatchRejectsToolSummary(message) ==
    IF message.response
    THEN IF message.kind = "TextMessage" THEN "append" ELSE "raise"
    ELSE "skip"

\* what lines 55-61 do with one item of the stream
Dispatch(message) ==
    IF message.response
    THEN IF message.kind = "TextMessage" THEN "append"
         ELSE IF message.kind = "ToolCallSummaryMessage" THEN "append"
         ELSE "raise"
    ELSE "skip"

\* variant: = instead of +=
AccumulateOverwrites(last, message) == message.content

\* last_txt_message += message.chat_message.content
Accumulate(last, message) == last \o message.content

\* variant: the echo prints the fragment, not the accumulator
EchoFragment(out, log, last, message) ==
    IF log THEN Append(out, message.content) ELSE out

\* if log: print(last_txt_message)
Echo(out, log, last, message) == IF log THEN Append(out, last) ELSE out

\* variant: the chat message is looked at only when echoing
IterationChecksWhenEchoing(st, message, log) ==
    CASE Dispatch(message) = "append" ->
              LET last == Accumulate(st.last, message)
              IN  [last |-> last, out |-> Echo(st.out, log, last, message),
                   status |-> st.status]
      [] Dispatch(message) = "skip" -> st
      [] Dispatch(message) = "raise" ->
              IF log THEN [st EXCEPT !.status = "raised"] ELSE st

\* one iteration of the async for (lines 54-63) on the item message, from
\* the accumulator st.last with st.out printed so far
Iteration(st, message, log) ==
    CASE Dispatch(message) = "append" ->
              LET last == Accumulate(st.last, message)
              IN  [last |-> last, out |-> Echo(st.out, log, last, message),
                   status |-> st.status]
      [] Dispatch(message) = "skip" -> st
      [] Dispatch(message) = "raise" -> [st EXCEPT !.status = "raised"]

\* the iterations over the items of a stream, up to the one that raises
RECURSIVE Iterations(_, _, _)
Iterations(st, items, log) ==
    IF items = <<>> \/ st.status = "raised" THEN st
    ELSE Iterations(Iteration(st, Head(items), log), Tail(items), log)

\* run on a stream that holds items and then ends (lines 52-64)
run(items, log) ==
    LET end == Iterations([last |-> <<>>, out |-> <<>>, status |-> "streaming"],
                          items, log)
    IN  IF end.status = "raised" THEN end ELSE [end EXCEPT !.status = "returned"]

\* ---- gitgen ---------------------------------------------------------------
PipelinePhases == <<"Fetch", "Analyze", "Summarize", "Draft">>

TurnPhases == {"Fetch", "Analyze", "Summarize", "Draft", "Revising"}

\* variant: every run call echoes
LogFlagAlways(phase) == TRUE

\* log= argument of the run call of each phase
LogFlag(phase) == phase # "Analyze"

\* log= argument of the assistant_run_stream call of each phase in gen.py
GenLogFlag(phase) == phase \in {"Summarize", "Draft"}

\* variant: the loop ends after one revision
AfterPhaseLeavesLoop(phase) ==
    CASE phase = "Fetch" -> "Analyze"
      [] phase = "Analyze" -> "Summarize"
      [] phase = "Summarize" -> "Draft"
      [] phase = "Draft" -> "AwaitingFeedback"
      [] phase = "Revising" -> "Exited"

\* variant: the Analyze call is left out
AfterPhaseSkipsAnalyze(phase) ==
    CASE phase = "Fetch" -> "Summarize"
      [] phase = "Analyze" -> "Summarize"
      [] phase = "Summarize" -> "Draft"
      [] phase = "Draft" -> "AwaitingFeedback"
      [] phase = "Revising" -> "AwaitingFeedback"

\* the statement after the run call of a pipeline phase returns
AfterPhase(phase) ==
    CASE phase = "Fetch" -> "Analyze"
      [] phase = "Analyze" -> "Summarize"
      [] phase = "Summarize" -> "Draft"
      [] phase = "Draft" -> "AwaitingFeedback"
      [] phase = "Revising" -> "AwaitingFeedback"

\* variant: the revision prompt embeds the case-folded feedback
TaskFoldsFeedback(phase, feedback) ==
    IF phase = "Revising"
    THEN [prompt |-> "Revise", embeds |-> lower(feedback)]
    ELSE [prompt |-> phase, embeds |-> <<>>]

\* task argument of the run call: the phase's prompt, with the text it embeds
Task(phase, feedback) ==
    IF phase = "Revising"
    THEN [prompt |-> "Revise", embeds |-> feedback]
    ELSE [prompt |-> phase, embeds |-> <<>>]

\* variant: the comparison without lower()
IsExitCaseSensitive(feedback) == strip(feedback) = <<"e", "x", "i", "t">>

IsExit(feedback) == strip(lower(feedback)) = <<"e", "x", "i", "t">>

\* variant: the comparison without lower()
IsAcceptCaseSensitive(feedback) == strip(feedback) = <<"y">>

\* variant: an empty line accepts
IsAcceptOrEmpty(feedback) == strip(lower(feedback)) \in {<<"y">>, <<>>}

IsAccept(feedback) == strip(lower(feedback)) = <<"y">>

\* what the human types at the prompt of get_user_input
RawInputs ==
    { <<"y">>, <<" ", "Y", " ">>,
      <<"e", "x", "i", "t">>, <<"E", "x", "I", "T", " ">>,
      <<>>, <<" ">>,
      <<" ", "O", "k">>, <<"y", "e", "s">> }

\* ---- main ------------------------------------------------------------------
\* the two scripts with a command line: the package's _gitgen.py and gen.py
Programs == {"gitgen", "gen"}

\* the Namespace parse_args returns; repo is <<>> when --repo is not given
\* (gen.py's repo_info is positional and always given)
ArgsSet ==
    [repo : {<<"o", "/", "r">>, <<"o">>, <<>>}, command : {"issue", "pr"}, number : {7}]

\* what `gh repo view` may end with: its return code and standard output
GhResults ==
    { [returncode |-> 0, stdout |-> <<"o", "/", "r", "\n">>],
      [returncode |-> 1, stdout |-> <<>>] }

\* variant: the test of the command lets pr through
RunsGitgenAlsoForPr(command) == command \in {"issue", "pr"}

\* the test of line 163 (gen.py line 76)
RunsGitgen(command) == command = "issue"

\* exit status of the interpreter after an uncaught exception or sys.exit(1)
ExitFailure == 1

VARIABLES
    program,            \* the script that runs
    args,               \* the parsed command line
    mainpc,             \* where main is
    exitCode,           \* exit status of the process, -1 while it runs
    owner_repo,         \* main's owner and repo
    agents,             \* AssistantAgent objects created
    phase,              \* where gitgen is
    inflight,           \* a run call is consuming its output stream
    last_txt_message,   \* run's accumulator
    consumed,           \* items the current run has taken from its stream
    runStatus,          \* outcome of the latest run call
    printed,            \* what the current run call has printed
    turns,              \* the run calls made so far: task and log flag
    suggested_response, \* gitgen's draft
    revisionCount,      \* assignments to the draft made by the loop
    typed,              \* the line the human typed last
    user_feedback,      \* gitgen's user_feedback
    clipboard,          \* the texts given to pyperclip.copy
    fpc,                \* where get_github_issue_content is
    requests,           \* session.get calls of the current tool call
    statuses,           \* HTTP statuses of those calls
    issue,              \* issue JSON of the current tool call
    comments,           \* comments JSON of the current tool call
    toolResult,         \* return value of the latest tool call
    held,               \* the session and responses entered and not released
    toolCalls           \* tool calls returned so far

vars == <<program, args, mainpc, exitCode, owner_repo, agents, phase, inflight,
          last_txt_message, consumed, runStatus, printed, turns,
          suggested_response, revisionCount, typed, user_feedback, clipboard,
          fpc, requests, statuses, issue, comments, toolResult, held,
          toolCalls>>

cliVars == <<program, args, mainpc, exitCode, owner_repo, agents>>

runVars == <<last_txt_message, consumed, runStatus, printed>>

loopVars == <<suggested_response, revisionCount, typed, user_feedback, clipboard>>

toolVars == <<fpc, requests, statuses, issue, comments, toolResult, held,
              toolCalls>>

NoValue == <<"<none>">>

\* main has launched gitgen for an issue of o/r, and gitgen has made its agent
Launched ==
    /\ program = "gitgen"
    /\ args = [repo |-> <<"o", "/", "r">>, command |-> "issue", number |-> 7]
    /\ mainpc = "gitgen"
    /\ exitCode = -1
    /\ owner_repo = <<<<"o">>, <<"r">>>>
    /\ agents = 1

Init ==
    /\ Launched
    /\ phase = "Fetch"
    /\ inflight = FALSE
    /\ last_txt_message = <<>>
    /\ consumed = <<>>
    /\ runStatus = "none"
    /\ printed = <<>>
    /\ turns = <<>>
    /\ suggested_response = NoValue
    /\ revisionCount = 0
    /\ typed = NoValue
    /\ user_feedback = NoValue
    /\ clipboard = <<>>
    /\ fpc = "idle"
    /\ requests = <<>>
    /\ statuses = <<>>
    /\ issue = EmptyObject
    /\ comments = <<>>
    /\ toolResult = NoValue
    /\ held = {}
    /\ toolCalls = 0

\* ---- actions ---------------------------------------------------------------
\* items the backend may yield next
Messages ==
    {Response("TextMessage", f) : f \in TextFragments}
    \cup {Response("ToolCallSummaryMessage", toolResult) : n \in 1..toolCalls}
    \cup {Response("HandoffMessage", <<"handoff">>), InnerEvent}

\* variant: the run call is started and not awaited
ResumedAtOnce(flight) == TRUE

\* await run(...): gitgen goes on only when the call it awaits has ended
Resumed(flight) == ~flight

\* gitgen reaches a run call: run opens the output stream (lines 47-52)
BeginRun ==
    /\ UNCHANGED cliVars
    /\ phase \in TurnPhases
    /\ Resumed(inflight)
    /\ inflight' = TRUE
    /\ turns' = Append(turns, [task |-> Task(phase, user_feedback),
                               log |-> IF program = "gen" THEN GenLogFlag(phase)
                                                          ELSE LogFlag(phase)])
    /\ last_txt_message' = <<>>
    /\ consumed' = <<>>
    /\ runStatus' = "streaming"
    /\ printed' = <<>>
    /\ UNCHANGED <<phase, loopVars, toolVars>>

\* one iteration of run's async for (lines 54-63)
NextMessage(message) ==
    /\ UNCHANGED cliVars
    /\ program = "gitgen"
    /\ inflight
    /\ fpc = "idle"
    /\ Len(consumed) < MaxEvents
    /\ consumed' = Append(consumed, message)
    /\ LET after == Iteration([last |-> last_txt_message, out |-> printed,
                               status |-> runStatus],
                              message, turns[Len(turns)].log)
       IN  /\ last_txt_message' = after.last
           /\ printed' = after.out
           /\ runStatus' = after.status
           /\ IF after.status = "raised"
              THEN \* ValueError leaves run, gitgen and asyncio.run
                   /\ inflight' = FALSE
                   /\ phase' = "Aborted"
              ELSE UNCHANGED <<phase, inflight>>
    /\ UNCHANGED <<turns, loopVars, toolVars>>

\* variant: the loop keeps the first draft
AssignsDraftOnlyFirst(p) == p = "Draft"

\* the phases whose run result gitgen assigns to suggested_response
AssignsDraft(p) == p \in {"Draft", "Revising"}

\* the stream is exhausted: run returns last_txt_message (line 64) and gitgen
\* goes on
EndOfStream ==
    /\ UNCHANGED cliVars
    /\ program = "gitgen"
    /\ inflight
    /\ fpc = "idle"
    /\ inflight' = FALSE
    /\ runStatus' = "returned"
    /\ phase' = AfterPhase(phase)
    /\ suggested_response' =
           IF AssignsDraft(phase) THEN last_txt_message ELSE suggested_response
    /\ revisionCount' = IF phase = "Revising" THEN revisionCount + 1 ELSE revisionCount
    /\ UNCHANGED <<last_txt_message, consumed, printed, turns, typed,
                   user_feedback, clipboard, toolVars>>

\* variant: the loop stops by itself after a revision
WhileOneRevision(passes) == passes < 1

\* while True (line 105)
WhileTrue(passes) == TRUE

\* one pass of the while loop up to its run call (lines 105-117)
GetUserInput(raw) ==
    /\ UNCHANGED cliVars
    /\ phase = "AwaitingFeedback"
    /\ IF ~WhileTrue(revisionCount)
       THEN /\ phase' = "Exited"
            /\ UNCHANGED <<typed, user_feedback, clipboard>>
       ELSE /\ typed' = raw
            /\ user_feedback' = strip(raw)
            /\ IF IsExit(strip(raw))
               THEN /\ phase' = "Exited"
                    /\ UNCHANGED clipboard
               ELSE IF IsAccept(strip(raw))
               THEN /\ phase' = "Accepted"
                    /\ clipboard' = Append(clipboard, suggested_response)
               ELSE /\ revisionCount < MaxRevisions
                    /\ phase' = "Revising"
                    /\ UNCHANGED clipboard
    /\ UNCHANGED <<inflight, runVars, turns, suggested_response, revisionCount,
                   toolVars>>

\* the backend calls the tool: the ClientSession is entered (lines 19-23)
ToolInvoke ==
    /\ UNCHANGED cliVars
    /\ inflight
    /\ fpc = "idle"
    /\ toolCalls < MaxToolCalls
    /\ fpc' = "issue"
    /\ requests' = <<>>
    /\ statuses' = <<>>
    /\ issue' = EmptyObject
    /\ comments' = <<>>
    /\ held' = EnterAsyncWith(held, "session")
    /\ UNCHANGED <<phase, inflight, runVars, turns, loopVars, toolResult, toolCalls>>

\* session.get(issue_url) (lines 24-30)
GetIssue(status, json) ==
    /\ UNCHANGED cliVars
    /\ fpc = "issue"
    /\ requests' = Append(requests, "issue")
    /\ statuses' = Append(statuses, status)
    /\ LET inside == EnterAsyncWith(held, "issue_response")
       IN  IF status = 200
           THEN /\ issue' = json
                /\ fpc' = "comments"
                /\ held' = ExitAsyncWith(inside, "issue_response", FALSE)
                /\ UNCHANGED <<toolResult, toolCalls>>
           ELSE /\ toolResult' = IssueError(status)
                /\ toolCalls' = toolCalls + 1
                /\ fpc' = "idle"
                /\ held' = ExitAsyncWith(
                               ExitAsyncWith(inside, "issue_response", TRUE),
                               "session", TRUE)
                /\ UNCHANGED issue
    /\ UNCHANGED <<phase, inflight, runVars, turns, loopVars, comments>>

\* session.get(comments_url) and the final return (lines 32-44)
GetComments(status, list) ==
    /\ UNCHANGED cliVars
    /\ fpc = "comments"
    /\ requests' = Append(requests, "comments")
    /\ statuses' = Append(statuses, status)
    /\ IF status = 200
       THEN /\ comments' = list
            /\ toolResult' =
                   IF program = "gen"
                   THEN gen_issue_result(issue_content_of(issue),
                                         gen_comments_content_of(list))
                   ELSE issue_result(issue_user_of(issue),
                                     issue_content_of(issue),
                                     comments_content_of(list))
       ELSE /\ toolResult' = CommentsError(status)
            /\ UNCHANGED comments
    /\ LET inside == EnterAsyncWith(held, "comments_response")
           returns == status # 200
       IN  held' = ExitAsyncWith(
                       ExitAsyncWith(inside, "comments_response", returns),
                       "session", returns)
    /\ toolCalls' = toolCalls + 1
    /\ fpc' = "idle"
    /\ UNCHANGED <<phase, inflight, runVars, turns, loopVars, issue>>

Next ==
    \/ BeginRun
    \/ \E message \in Messages : NextMessage(message)
    \/ EndOfStream
    \/ \E raw \in RawInputs : GetUserInput(raw)
    \/ ToolInvoke
    \/ \E status \in TurnStatuses, json \in TurnIssueJsons : GetIssue(status, json)
    \/ \E status \in TurnStatuses, list \in TurnCommentLists : GetComments(status, list)

Spec == Init /\ [][Next]_vars

\* every stream ends and every tool call returns; the human may stay silent
FairSpec ==
    /\ Spec
    /\ WF_vars(BeginRun)
    /\ WF_vars(EndOfStream)
    /\ WF_vars(\E status \in TurnStatuses, json \in TurnIssueJsons :
                   GetIssue(status, json))
    /\ WF_vars(\E status \in TurnStatuses, list \in TurnCommentLists :
                   GetComments(status, list))

\* The tool alone: a turn of the pipeline is in flight with nothing taken from
\* its stream yet, and the backend calls the tool.
InitFetch ==
    /\ Launched
    /\ \E k \in 1..Len(PipelinePhases) :
           /\ phase = PipelinePhases[k]
           /\ turns = [i \in 1..k |-> [task |-> Task(PipelinePhases[i], NoValue),
                                       log |-> LogFlag(PipelinePhases[i])]]
    /\ inflight = TRUE
    /\ last_txt_message = <<>>
    /\ consumed = <<>>
    /\ runStatus = "streaming"
    /\ printed = <<>>
    /\ suggested_response = NoValue
    /\ revisionCount = 0
    /\ typed = NoValue
    /\ user_feedback = NoValue
    /\ clipboard = <<>>
    /\ fpc = "idle"
    /\ requests = <<>>
    /\ statuses = <<>>
    /\ issue = EmptyObject
    /\ comments = <<>>
    /\ toolResult = NoValue
    /\ held = {}
    /\ toolCalls = 0

NextFetch ==
    \/ ToolInvoke
    \/ \E status \in Statuses, json \in IssueJsons : GetIssue(status, json)
    \/ \E status \in Statuses, list \in CommentLists : GetComments(status, list)

SpecFetch == InitFetch /\ [][NextFetch]_vars

\* ---- the command line ------------------------------------------------------
\* one iteration of assistant_run_stream's async for (gen.py lines 38-40); an
\* item that is not a Response has no chat_message
GenNextMessage(message) ==
    /\ UNCHANGED cliVars
    /\ program = "gen"
    /\ inflight
    /\ fpc = "idle"
    /\ Len(consumed) < MaxEvents
    /\ consumed' = Append(consumed, message)
    /\ IF turns[Len(turns)].log
       THEN IF message.response
            THEN /\ printed' = Append(printed, message.content)
                 /\ UNCHANGED <<phase, inflight, runStatus>>
            ELSE \* AttributeError leaves assistant_run_stream and main
                 /\ runStatus' = "raised"
                 /\ inflight' = FALSE
                 /\ phase' = "Aborted"
                 /\ UNCHANGED printed
       ELSE UNCHANGED <<phase, inflight, runStatus, printed>>
    /\ UNCHANGED <<last_txt_message, turns, loopVars, toolVars>>

\* assistant_run_stream returns None and gen.py's main goes on (lines 53-62)
GenEndOfStream ==
    /\ UNCHANGED cliVars
    /\ program = "gen"
    /\ inflight
    /\ fpc = "idle"
    /\ inflight' = FALSE
    /\ runStatus' = "returned"
    /\ phase' = IF phase = "Draft" THEN "Finished" ELSE AfterPhase(phase)
    /\ UNCHANGED <<last_txt_message, consumed, printed, turns, loopVars, toolVars>>

\* lines 138-158 (gen.py line 72): owner and repo from --repo or from gh
ResolveRepo(gh) ==
    /\ mainpc = "main"
    /\ LET detects == program = "gitgen" /\ args.repo = <<>>
           parts == IF detects THEN split(strip(gh.stdout), "/")
                               ELSE split(args.repo, "/")
       IN  IF (detects /\ gh.returncode # 0) \/ Len(parts) # 2
           THEN \* CalledProcessError, or ValueError of the unpacking
                /\ mainpc' = "exited"
                /\ exitCode' = ExitFailure
                /\ UNCHANGED owner_repo
           ELSE /\ owner_repo' = parts
                /\ mainpc' = "command"
                /\ UNCHANGED exitCode
    /\ UNCHANGED <<program, args, agents, phase, inflight, runVars, turns,
                   loopVars, toolVars>>

\* lines 160-167 (gen.py lines 73-80), and for an issue the start of gitgen up
\* to its first run call (lines 78-86)
RunCommand ==
    /\ mainpc = "command"
    /\ IF RunsGitgen(args.command)
       THEN /\ mainpc' = "gitgen"
            /\ agents' = agents + 1
            /\ phase' = "Fetch"
            /\ UNCHANGED exitCode
       ELSE /\ mainpc' = "exited"
            /\ exitCode' = ExitFailure
            /\ UNCHANGED <<agents, phase>>
    /\ UNCHANGED <<program, args, owner_repo, inflight, runVars, turns, loopVars,
                   toolVars>>

\* asyncio.run returns or raises, and the process ends
ProcessExit ==
    /\ mainpc = "gitgen"
    /\ phase \in {"Accepted", "Exited", "Finished", "Aborted"}
    /\ mainpc' = "exited"
    /\ exitCode' = IF phase = "Aborted" THEN ExitFailure ELSE 0
    /\ UNCHANGED <<program, args, owner_repo, agents, phase, inflight, runVars,
                   turns, loopVars, toolVars>>

InitMain ==
    /\ program \in Programs
    /\ args \in ArgsSet
    /\ mainpc = "main"
    /\ exitCode = -1
    /\ owner_repo = NoValue
    /\ agents = 0
    /\ phase = "NotStarted"
    /\ inflight = FALSE
    /\ last_txt_message = <<>>
    /\ consumed = <<>>
    /\ runStatus = "none"
    /\ printed = <<>>
    /\ turns = <<>>
    /\ suggested_response = NoValue
    /\ revisionCount = 0
    /\ typed = NoValue
    /\ user_feedback = NoValue
    /\ clipboard = <<>>
    /\ fpc = "idle"
    /\ requests = <<>>
    /\ statuses = <<>>
    /\ issue = EmptyObject
    /\ comments = <<>>
    /\ toolResult = NoValue
    /\ held = {}
    /\ toolCalls = 0

NextMain ==
    \/ \E gh \in GhResults : ResolveRepo(gh)
    \/ RunCommand
    \/ ProcessExit
    \/ \E message \in Messages : GenNextMessage(message)
    \/ GenEndOfStream
    \/ Next

SpecMain == InitMain /\ [][NextMain]_vars

\* ---- properties ------------------------------------------------------------
Recognized == {"TextMessage", "ToolCallSummaryMessage"}

IsFragment(message) == message.response /\ message.kind \in Recognized

IsUnexpectedResponse(message) == message.response /\ message.kind \notin Recognized

\* the fragments of a sequence of stream items, first to last
RECURSIVE Concatenation(_)
Concatenation(items) ==
    IF items = <<>> THEN <<>>
    ELSE (IF IsFragment(Head(items)) THEN Head(items).content ELSE <<>>)
         \o Concatenation(Tail(items))

\* the value the latest run call returned, while runStatus = "returned"
Returned == last_txt_message

\* C1: over a stream of TextMessage and ToolCallSummaryMessage responses
\* only, the accumulator is at every point the concatenation of the
\* fragments taken so far, in arrival order, and the value run returns is
\* the concatenation of all of them (the empty text for the empty stream);
\* the result is a function of the sequence alone.
C1_ConcatenationInOrder ==
    (\A i \in 1..Len(consumed) : IsFragment(consumed[i]))
    => /\ runStatus \in {"streaming", "returned"}
          => last_txt_message = Concatenation(consumed)
       /\ runStatus = "returned" => Returned = Concatenation(consumed)

C1_Witness ==
    /\ runStatus = "returned"
    /\ Len(consumed) = 2
    /\ consumed[1].kind = "TextMessage"
    /\ consumed[2].kind = "ToolCallSummaryMessage"
    /\ Returned = <<"Hello ">> \o toolResult

\* C2 as stated: a run whose stream held any item that is neither a
\* TextMessage nor a ToolCallSummaryMessage response never returns.
C2_AnyOtherItemFails ==
    (\E i \in 1..Len(consumed) : ~IsFragment(consumed[i]))
    => runStatus # "returned"

\* C2 amended: a run that takes a Response whose chat message is neither a
\* TextMessage nor a ToolCallSummaryMessage raises at that item, whatever came
\* before it, and returns nothing; items of the stream that are not Response
\* objects are skipped and add nothing to the value the run returns.
C2_UnexpectedResponseFails ==
    /\ (\E i \in 1..Len(consumed) : IsUnexpectedResponse(consumed[i]))
       => /\ runStatus = "raised"
          /\ IsUnexpectedResponse(consumed[Len(consumed)])
          /\ \A i \in 1..(Len(consumed) - 1) : ~IsUnexpectedResponse(consumed[i])
    /\ runStatus = "returned"
       => /\ \A i \in 1..Len(consumed) : ~IsUnexpectedResponse(consumed[i])
          /\ Returned = Concatenation(consumed)

C2_Witness ==
    /\ runStatus = "raised"
    /\ Len(consumed) = 2
    /\ consumed[1].kind = "TextMessage"
    /\ IsUnexpectedResponse(consumed[2])
    /\ last_txt_message # <<>>

\* the human's line, trimmed and case-folded
Normalized(line) == strip(lower(line))

\* a step in which the loop reads a line from the human
ReadsInput == phase = "AwaitingFeedback" /\ phase' # phase

\* C3: whenever the line read is "y" once trimmed and case-folded, after any
\* number of revisions, the loop ends in Accepted, starts no turn, and the
\* clipboard receives exactly the current draft, which is left unchanged;
\* nothing happens after Accepted.
C3_AcceptCopiesDraft ==
    [][/\ phase # "Accepted"
       /\ (ReadsInput /\ Normalized(typed') = <<"y">>)
          => /\ phase' = "Accepted"
             /\ clipboard' = <<suggested_response>>
             /\ suggested_response' = suggested_response
             /\ turns' = turns
             /\ ~inflight']_vars

C3_Witness ==
    /\ phase = "Accepted"
    /\ typed = <<" ", "Y", " ">>
    /\ revisionCount = 1
    /\ clipboard = <<suggested_response>>
    /\ suggested_response # <<>>

\* C4: whenever the line read is "exit" once trimmed and case-folded, the
\* loop ends in Exited, starts no turn, and the clipboard has not been written
\* at any point of that run; nothing happens after Exited.
C4_ExitNeverCopies ==
    [][/\ phase # "Exited"
       /\ (ReadsInput /\ Normalized(typed') = <<"e", "x", "i", "t">>)
          => /\ phase' = "Exited"
             /\ clipboard' = <<>>
             /\ turns' = turns
             /\ ~inflight']_vars

C4_Witness ==
    /\ phase = "Exited"
    /\ typed = <<"E", "x", "I", "T", " ">>
    /\ revisionCount = 1
    /\ clipboard = <<>>

IsSentinel(line) == Normalized(line) \in {<<"y">>, <<"e", "x", "i", "t">>}

\* the revision turn for the feedback the loop holds
RevisionTurn == [task |-> [prompt |-> "Revise", embeds |-> strip(typed)], log |-> TRUE]

\* what a revision in progress may do in one step: start its one turn, take
\* an item of the stream, or return with the new draft
RevisionStep ==
    /\ clipboard' = clipboard
    /\ typed' = typed
    /\ \/ /\ ~inflight /\ inflight'
          /\ turns' = Append(turns, RevisionTurn)
          /\ UNCHANGED <<phase, suggested_response, revisionCount>>
       \/ /\ inflight /\ inflight'
          /\ UNCHANGED <<phase, turns, suggested_response, revisionCount>>
       \/ /\ inflight /\ ~inflight'
          /\ phase' = "AwaitingFeedback"
          /\ turns' = turns
          /\ runStatus' = "returned"
          /\ suggested_response' = Concatenation(consumed)
          /\ revisionCount' = revisionCount + 1

\* the revision turn raises: the draft stays and the run is over
RevisionAborts ==
    /\ inflight /\ ~inflight'
    /\ phase' = "Aborted"
    /\ runStatus' = "raised"
    /\ UNCHANGED <<turns, suggested_response, revisionCount, clipboard>>

\* C5 as stated: every non-empty feedback that is no sentinel puts the loop
\* in Revising, where it issues one turn embedding the feedback, and leaves
\* Revising only by going back to AwaitingFeedback with the draft overwritten
\* by that turn's reply and revisionCount one higher, the clipboard untouched.
C5_RevisionAlwaysReturns ==
    [][/\ (ReadsInput /\ ~IsSentinel(typed') /\ strip(typed') # <<>>)
          => phase' = "Revising" /\ ~inflight'
                /\ UNCHANGED <<turns, suggested_response, revisionCount, clipboard>>
       /\ (phase = "Revising" /\ strip(typed) # <<>>) => RevisionStep]_vars

\* C5 amended: the same, except that the revision turn may fail on an
\* unexpected chat message; the loop then does not return to AwaitingFeedback:
\* the run aborts with the draft, revisionCount and clipboard unchanged.  As
\* every stream ends, a revision does return or abort.
C5_RevisionReturnsOrAborts ==
    /\ [][/\ (ReadsInput /\ ~IsSentinel(typed') /\ strip(typed') # <<>>)
             => phase' = "Revising" /\ ~inflight'
                   /\ UNCHANGED <<turns, suggested_response, revisionCount, clipboard>>
          /\ (phase = "Revising" /\ strip(typed) # <<>>)
             => \/ RevisionStep
                \/ RevisionAborts /\ IsUnexpectedResponse(consumed'[Len(consumed')])]_vars
    /\ (phase = "Revising") ~> (phase \in {"AwaitingFeedback", "Aborted"})

C5_Witness ==
    /\ phase = "AwaitingFeedback"
    /\ typed = <<" ", "O", "k">>
    /\ revisionCount = 1
    /\ Len(turns) = 5
    /\ turns[5].task.embeds = <<"O", "k">>
    /\ suggested_response = <<"Hello ", "Hello ">>
    /\ clipboard = <<>>

\* the prompts of the run calls made so far
Prompts == [i \in 1..Len(turns) |-> turns[i].task.prompt]

\* C6: the run calls are made in the order Fetch, Analyze, Summarize, Draft,
\* each once and one after the other, whatever the streams hold; the first
\* feedback prompt comes after exactly these four, with the draft equal to the
\* Draft call's reply and no revision counted.
C6_FourTurnsInOrder ==
    /\ \A k \in 1..4 :
          phase = PipelinePhases[k]
          => /\ Len(turns) = (IF inflight THEN k ELSE k - 1)
             /\ Prompts = SubSeq(PipelinePhases, 1, Len(turns))
             /\ revisionCount = 0
    /\ phase \in {"AwaitingFeedback", "Revising", "Accepted", "Exited"}
       => /\ Len(turns) >= 4
          /\ SubSeq(Prompts, 1, 4) = PipelinePhases
          /\ \A i \in 5..Len(turns) : Prompts[i] = "Revise"
    /\ (phase = "AwaitingFeedback" /\ typed = NoValue)
       => /\ Len(turns) = 4
          /\ revisionCount = 0
          /\ runStatus = "returned"
          /\ suggested_response = Returned
          /\ Returned = Concatenation(consumed)

C6_Witness ==
    /\ phase = "AwaitingFeedback"
    /\ typed = NoValue
    /\ Prompts = PipelinePhases
    /\ toolResult # NoValue
    /\ suggested_response = toolResult \o <<"Hello ">>

\* C7: a run call that takes an unexpected chat message ends the whole run in
\* that step: no turn is in flight or started afterwards, the human is not
\* asked again and the clipboard is not written; nothing happens after the
\* abort.
C7_ViolationAbortsRun ==
    [][/\ phase # "Aborted"
       /\ (\E i \in 1..Len(consumed') : IsUnexpectedResponse(consumed'[i]))
          => /\ phase' = "Aborted"
             /\ ~inflight'
             /\ runStatus' = "raised"
             /\ UNCHANGED <<turns, typed, clipboard, suggested_response>>]_vars

C7_Witness ==
    /\ phase = "Aborted"
    /\ Len(turns) = 5
    /\ revisionCount = 0
    /\ clipboard = <<>>
    /\ IsUnexpectedResponse(consumed[Len(consumed)])

\* the three decimal digits of an HTTP status
StatusDigits(status) ==
    <<Digit(status \div 100), Digit((status \div 10) % 10), Digit(status % 10)>>

IsInfix(part, text) ==
    \E i \in 0..(Len(text) - Len(part)) : SubSeq(text, i + 1, i + Len(part)) = part

Atoms(text) == {text[i] : i \in 1..Len(text)}

\* the latest tool call has returned
ToolReturned == fpc = "idle" /\ toolCalls > 0

\* C8: a tool call whose issue request is answered with a status other than
\* 200 returns a text holding that status and makes no comments request; one
\* whose issue request is answered 200 and whose comments request is not
\* returns a text holding the comments request's status and nothing of the
\* issue body.
C8_ErrorTextNamesStatus ==
    ToolReturned
    => /\ statuses[1] # 200
          => /\ requests = <<"issue">>
             /\ IsInfix(StatusDigits(statuses[1]), toolResult)
       /\ (statuses[1] = 200 /\ statuses[2] # 200)
          => /\ requests = <<"issue", "comments">>
             /\ IsInfix(StatusDigits(statuses[2]), toolResult)
             /\ ~IsInfix(StatusDigits(statuses[1]), toolResult)
             /\ Atoms(toolResult) \cap Atoms(issue_content_of(issue)) = {}

C8_Witness ==
    /\ ToolReturned
    /\ statuses = <<404>>
    /\ toolResult = <<"Error fetching issue: ", "4", "0", "4">>

\* the latest tool call returned an error text
FetchFailed == ToolReturned /\ statuses[Len(statuses)] # 200

\* C9: a request answered with a status other than 200 makes the tool return
\* a text in the middle of the turn, which stays in flight; a tool summary
\* carrying that text is appended like any other; the run aborts only on an
\* unexpected chat message; and the turn in which the fetch failed goes on
\* to the feedback prompt unless such a message aborts the run.
C9_FetchFailureDoesNotAbort ==
    /\ [][/\ (fpc # "idle" /\ FetchFailed')
             => /\ toolResult' \in {IssueError(c) : c \in Statuses}
                                   \cup {CommentsError(c) : c \in Statuses}
                /\ inflight'
                /\ runStatus' = "streaming"
                /\ UNCHANGED <<phase, turns, clipboard>>
          /\ (FetchFailed /\ Len(consumed') > Len(consumed)
                /\ consumed'[Len(consumed')].kind = "ToolCallSummaryMessage")
             => /\ last_txt_message' = last_txt_message \o toolResult
                /\ inflight'
                /\ phase' = phase
          /\ (phase # "Aborted" /\ phase' = "Aborted")
             => IsUnexpectedResponse(consumed'[Len(consumed')])]_vars
    /\ (FetchFailed /\ inflight) ~> (phase \in {"AwaitingFeedback", "Aborted"})

C9_Witness ==
    /\ phase = "AwaitingFeedback"
    /\ typed = NoValue
    /\ FetchFailed
    /\ statuses = <<200, 404>>
    /\ suggested_response = toolResult

\* the pieces of a text between the occurrences of the atom sep
RECURSIVE SplitOn(_, _)
SplitOn(sep, text) ==
    IF text = <<>> THEN <<>>
    ELSE IF sep \notin Atoms(text) THEN <<text>>
    ELSE LET at == CHOOSE i \in 1..Len(text) :
                       text[i] = sep /\ \A j \in 1..(i - 1) : text[j] # sep
         IN  <<SubSeq(text, 1, at - 1)>>
             \o SplitOn(sep, SubSeq(text, at + 1, Len(text)))

\* C10: when both requests are answered 200 the text returned is the issue
\* body under its author's name, then the comments: one entry per comment
\* of the list, in the list's order, each "author (ID: id): text", the entries
\* separated by a blank line.
C10_OneEntryPerComment ==
    (ToolReturned /\ statuses = <<200, 200>>)
    => LET parts == SplitOn("\n\nComments:\n", toolResult)
           entries == IF Len(parts) = 2 THEN SplitOn("\n\n", parts[2]) ELSE <<>>
       IN  /\ Len(parts) = (IF comments = <<>> THEN 1 ELSE 2)
           /\ parts[1] = <<"Issue Content by ">> \o issue_user_of(issue)
                         \o <<":\n">> \o issue_content_of(issue)
           /\ Len(entries) = Len(comments)
           /\ \A i \in 1..Len(comments) : entries[i] = comment_line(comments[i])
           /\ (/\ issue = [body |-> <<"B">>, user |-> [login |-> <<"alice">>]]
               /\ comments = <<[user |-> [login |-> <<"bob">>, id |-> 7],
                                body |-> <<"C1">>]>>)
              => toolResult = <<"Issue Content by ", "alice", ":\n", "B",
                                "\n\nComments:\n",
                                "bob", " (ID: ", "7", "): ", "C1">>

C10_Witness ==
    /\ ToolReturned
    /\ statuses = <<200, 200>>
    /\ Len(comments) = 2
    /\ toolResult = <<"Issue Content by ", "alice", ":\n", "B", "\n\nComments:\n",
                      "carol", " (ID: ", "1", "2", "): ", "C2", "\n\n",
                      "bob", " (ID: ", "7", "): ", "C1">>

\* C11: a command line whose command is pr ends the process with status 1,
\* whether the repository came from --repo or from gh; no agent is
\* created and no run call is made at any point of such a process.
C11_PrIsRejected ==
    args.command = "pr"
    => /\ agents = 0
       /\ turns = <<>>
       /\ phase = "NotStarted"
       /\ ~inflight
       /\ mainpc \in {"main", "command", "exited"}
       /\ mainpc = "exited" <=> exitCode = 1
       /\ mainpc # "exited" => exitCode = -1

C11_Witness ==
    /\ program = "gitgen"
    /\ args.command = "pr"
    /\ args.repo = <<>>
    /\ owner_repo = <<<<"o">>, <<"r">>>>
    /\ mainpc = "exited"
    /\ exitCode = 1
    /\ agents = 0

\* C12: from the return of the Draft call on, suggested_response is the
\* value returned by the latest run call that returned; it changes only in
\* the step in which a Draft or revision run call returns, and then to the
\* value returned; a revision in progress or failed leaves it alone.
C12_DraftIsLatestReply ==
    /\ [](phase \in {"AwaitingFeedback", "Accepted", "Exited"}
          => /\ runStatus = "returned"
             /\ suggested_response = Returned)
    /\ [][suggested_response' # suggested_response
          => /\ phase \in {"Draft", "Revising"}
             /\ inflight /\ ~inflight'
             /\ runStatus' = "returned"
             /\ suggested_response' = last_txt_message']_vars
    /\ [][(phase = "Revising" /\ phase' \in {"Revising", "Aborted"})
          => UNCHANGED suggested_response]_vars

C12_Witness ==
    /\ phase = "Accepted"
    /\ revisionCount = 1
    /\ Len(turns) = 5
    /\ consumed = <<>>
    /\ suggested_response = <<>>
    /\ clipboard = <<<<>>>>

\* C13 as stated: the only phase that follows Revising is AwaitingFeedback,
\* and every revision gets there.
C13_RevisingAlwaysReturns ==
    /\ [][phase = "Revising" => phase' \in {"Revising", "AwaitingFeedback"}]_vars
    /\ (phase = "Revising") ~> (phase = "AwaitingFeedback")

\* C13 amended: Revising is left for AwaitingFeedback when the run call
\* returns, and for the end of the program when the item just taken from the
\* stream is a Response with an unexpected chat message; there is no other
\* way out, and as every stream ends one of the two happens.
C13_RevisingReturnsUnlessViolation ==
    /\ [][(phase = "Revising" /\ phase' # "Revising")
          => \/ /\ phase' = "AwaitingFeedback"
                /\ runStatus' = "returned"
                /\ consumed' = consumed
             \/ /\ phase' = "Aborted"
                /\ runStatus' = "raised"
                /\ consumed' # consumed
                /\ IsUnexpectedResponse(consumed'[Len(consumed')])]_vars
    /\ (phase = "Revising")
          ~> \/ phase = "AwaitingFeedback" /\ runStatus = "returned"
             \/ phase = "Aborted" /\ runStatus = "raised"

C13_Witness ==
    /\ phase = "Aborted"
    /\ runStatus = "raised"
    /\ Len(turns) = 5
    /\ turns[5].task.prompt = "Revise"
    /\ Len(consumed) = 2
    /\ IsFragment(consumed[1])
    /\ IsUnexpectedResponse(consumed[2])

\* C14: the tool holds the ClientSession exactly while a call is between
\* its first line and its return, and holds no response between two
\* requests; when the call has returned, by the error return after the first
\* request, by the error return after the second or by the final return,
\* nothing is held.
C14_NothingHeldAfterReturn ==
    /\ fpc = "idle" => held = {}
    /\ fpc \in {"issue", "comments"} => held = {"session"}
    /\ ToolReturned
       => /\ held = {}
          /\ \/ requests = <<"issue">> /\ statuses[1] # 200
             \/ requests = <<"issue", "comments">> /\ statuses[1] = 200

C14_Witness ==
    /\ ToolReturned
    /\ requests = <<"issue", "comments">>
    /\ statuses = <<200, 500>>
    /\ toolResult = CommentsError(500)
    /\ held = {}

\* C15: a run call is started only when none is in flight, and, unless it is
\* the first, only after the one before it has returned with its stream taken
\* to the end; it adds one turn; the human is asked for a line only when no
\* run call is in flight and the latest one has returned.
C15_OneTurnAtATime ==
    [][/\ turns' # turns
          => /\ ~inflight /\ inflight'
             /\ Len(turns') = Len(turns) + 1
             /\ SubSeq(turns', 1, Len(turns)) = turns
             /\ turns # <<>> => runStatus = "returned"
             /\ consumed' = <<>>
       /\ (inflight /\ inflight') => turns' = turns
       /\ ReadsInput
          => /\ ~inflight /\ ~inflight'
             /\ runStatus = "returned"
             /\ turns' = turns]_vars

C15_Witness ==
    /\ phase = "Revising"
    /\ inflight
    /\ Len(turns) = 5
    /\ runStatus = "streaming"
    /\ Len(consumed) = 1
    /\ typed = <<"y", "e", "s">>

\* no item taken from the current stream is a Response with an unexpected
\* chat message
WellFormed == \A i \in 1..Len(consumed) : ~IsUnexpectedResponse(consumed[i])

Ended == phase \in {"Accepted", "Exited"}

Log == turns[Len(turns)].log

\* the items of the current stream that added a fragment
Fragments == SelectSeq(consumed, IsFragment)

\* C17 as stated: with log on, run has printed once per item taken from the
\* stream, the k-th time the concatenation of the fragments of the first k
\* items; with log off it has printed nothing.
C17_PrintsAfterEveryEvent ==
    turns # <<>>
    => IF Log
       THEN /\ Len(printed) = Len(consumed)
            /\ \A k \in 1..Len(printed) :
                  printed[k] = Concatenation(SubSeq(consumed, 1, k))
       ELSE printed = <<>>

\* C17 amended: with log on, run has printed once per Response with a
\* TextMessage or a ToolCallSummaryMessage taken from the stream, the k-th
\* time the concatenation of the first k fragments; an item that is not a
\* Response, and the Response that makes run raise, print nothing; with log
\* off run has printed nothing.
C17_PrintsAfterEveryFragment ==
    turns # <<>>
    => IF Log
       THEN /\ Len(printed) = Len(Fragments)
            /\ \A k \in 1..Len(printed) :
                  printed[k] = Concatenation(SubSeq(Fragments, 1, k))
       ELSE printed = <<>>

C17_Witness ==
    /\ turns # <<>>
    /\ Log
    /\ Len(consumed) = 2
    /\ consumed[1] = InnerEvent
    /\ consumed[2].kind = "TextMessage"
    /\ printed = << <<"Hello ">> >>

\* the log arguments of the run calls made so far
Logs == [i \in 1..Len(turns) |-> turns[i].log]

\* the prompt of the latest run call
Prompt == turns[Len(turns)].task.prompt

\* C18 as stated: the run calls of Fetch, Analyze, Summarize and Draft are
\* made with log on, off, on and on; the Analyze call prints nothing, and
\* each of the other three prints what it has accumulated.
C18_FlagsOnOffOnOn ==
    /\ \A i \in 1..Len(turns) :
          turns[i].task.prompt \in {"Fetch", "Analyze", "Summarize", "Draft"}
          => turns[i].log = (turns[i].task.prompt # "Analyze")
    /\ turns # <<>>
       => /\ Prompt = "Analyze" => printed = <<>>
          /\ (Prompt \in {"Fetch", "Summarize", "Draft"} /\ Fragments # <<>>)
             => printed # <<>>

\* C18 amended: _gitgen.py makes the four calls with log on, off, on and on;
\* gen.py makes them with log off, off, on and on.  In both the Analyze call
\* prints nothing; a call with log on prints once it has taken a fragment
\* (in _gitgen.py the last value printed is the accumulator); gen.py's Fetch
\* call prints nothing.
C18_FlagsOfEachProgram ==
    /\ \A i \in 1..Len(turns) :
          turns[i].task.prompt \in {"Fetch", "Analyze", "Summarize", "Draft"}
          => turns[i].log =
                IF program = "gen"
                THEN turns[i].task.prompt \in {"Summarize", "Draft"}
                ELSE turns[i].task.prompt # "Analyze"
    /\ turns # <<>>
       => /\ Prompt = "Analyze" => printed = <<>>
          /\ (program = "gen" /\ Prompt = "Fetch") => printed = <<>>
          /\ (Log /\ Fragments # <<>>) => printed # <<>>
          /\ (program = "gitgen" /\ Log /\ Fragments # <<>>
                 /\ runStatus \in {"streaming", "returned"})
             => printed[Len(printed)] = last_txt_message

C18_Witness ==
    /\ program = "gen"
    /\ phase = "Finished"
    /\ Logs = <<FALSE, FALSE, TRUE, TRUE>>
    /\ printed = << <<"Hello ">>, <<"Hello ">> >>

\* C19: on the items taken from any stream, run with log on and run with
\* log off end the same way, by returning or by raising at the same item,
\* and hold the same accumulator, which is the value returned; with log off
\* nothing is printed; the run call in progress is at the point the
\* iterations over these items reach with its own log argument.
C19_EchoOnlyPrints ==
    LET on == run(consumed, TRUE)
        off == run(consumed, FALSE)
    IN  /\ on.status = off.status
        /\ on.last = off.last
        /\ off.out = <<>>
        /\ \A k \in 1..Len(consumed) :
              run(SubSeq(consumed, 1, k), TRUE).status
                 = run(SubSeq(consumed, 1, k), FALSE).status
        /\ (turns # <<>> /\ program = "gitgen")
           => /\ last_txt_message = run(consumed, Log).last
              /\ printed = run(consumed, Log).out
              /\ runStatus = "raised" <=> on.status = "raised"

C19_Witness ==
    /\ turns # <<>>
    /\ ~Log
    /\ runStatus = "raised"
    /\ Len(consumed) = 2
    /\ IsFragment(consumed[1])
    /\ IsUnexpectedResponse(consumed[2])
    /\ run(consumed, TRUE).out = << <<"Hello ">> >>
    /\ printed = <<>>

\* the line read last is empty once trimmed
EmptyFeedback == strip(typed) = <<>>

\* the revision turn of an empty feedback
EmptyRevisionTurn == [task |-> [prompt |-> "Revise", embeds |-> <<>>], log |-> TRUE]

\* C20: a line read that is not "y" or "exit" once trimmed and case-folded
\* puts the loop in Revising, the empty line and the line of blanks included:
\* for these the loop copies nothing and ends nothing, the one run call of the
\* revision embeds the empty text, and when that call returns its value
\* becomes the draft and the revision is counted.
C20_EmptyFeedbackRevises ==
    /\ []((phase = "Revising" /\ EmptyFeedback)
          => /\ user_feedback = <<>>
             /\ ~IsSentinel(typed)
             /\ Len(turns) = 4 + revisionCount + (IF inflight THEN 1 ELSE 0)
             /\ inflight => turns[Len(turns)] = EmptyRevisionTurn)
    /\ [][/\ (ReadsInput /\ ~IsSentinel(typed')) => phase' = "Revising"
          /\ (ReadsInput /\ strip(typed') = <<>>)
             => /\ phase' = "Revising"
                /\ user_feedback' = <<>>
                /\ UNCHANGED <<turns, suggested_response, revisionCount, clipboard>>
          /\ (phase = "Revising" /\ EmptyFeedback /\ turns' # turns)
             => turns' = Append(turns, EmptyRevisionTurn)
          /\ (phase = "Revising" /\ EmptyFeedback /\ phase' = "AwaitingFeedback")
             => /\ runStatus' = "returned"
                /\ suggested_response' = last_txt_message
                /\ revisionCount' = revisionCount + 1
                /\ turns[Len(turns)] = EmptyRevisionTurn]_vars

C20_Witness ==
    /\ phase = "AwaitingFeedback"
    /\ typed = <<" ">>
    /\ user_feedback = <<>>
    /\ revisionCount = 1
    /\ Len(turns) = 5
    /\ turns[5] = EmptyRevisionTurn
    /\ suggested_response = <<"Hello ">>
    /\ clipboard = <<>>

====
